---- MODULE Spec2Model ----
(***************************************************************************)
(* Model of send_test_email_with_screenshot.py: the UI smoke check that    *)
(* validates a list of URLs in one browser session, captures screenshots,  *)
(* builds an HTML report and mails it over SMTP.                           *)
(*                                                                         *)
(* External collaborators (browser, filesystem, SMTP server) are inputs:   *)
(* every call into them draws its outcome (return value or exception)      *)
(* from a small set.                                                       *)
(***************************************************************************)
EXTENDS Integers, Sequences, FiniteSets, TLC

VARIABLES
    pc,                 \* position of main()
    urls,               \* the input URL list
    i,                  \* number of loop iterations of main completed
    check_size,         \* --check-size
    email_inline_images,\* --email-inline-images / --no-email-inline-images
    smtp_user,          \* resolved SMTP username
    smtp_pass,          \* resolved SMTP password
    driver,             \* "none" | "running" | "quit"
    builds,             \* number of build_driver calls
    quits,              \* number of driver.quit calls
    visited,            \* URLs passed to driver.get, in order
    page,               \* what the browser shows for the URL being validated
    vres,               \* outcome of the validate_ui call of the current URL
    validated,          \* per processed URL: did validate_ui return normally
    results,            \* List[UrlResult]
    overall_ok,
    files,              \* resolved paths of the files on disk
    body_html,          \* per table row, the screenshot cell
    inline_cid_by_path, \* Path -> content-id
    attachments,        \* List[Path]
    msg,                \* the composed MIME message
    smtp,               \* transport calls made by send_via_smtp, in order
    raised,             \* steps of the reporting code that raised
    phases,             \* the stages of the run entered so far, in order
    pending,            \* what unwinds through the finally block
    exitCode            \* process exit status, -1 while running

vars == << pc, urls, i, check_size, email_inline_images, smtp_user, smtp_pass,
           driver, builds, quits, visited, page, vres, validated, results,
           overall_ok, files, body_html, inline_cid_by_path, attachments,
           msg, smtp, raised, phases, pending, exitCode >>

----------------------------------------------------------------------------
\* Bounds

MaxUrls == 2        \* longest input URL list
MaxPaths == 2       \* distinct files in the inputs of compose_email_message
MaxAttach == 2      \* longest attachment list given to compose_email_message

----------------------------------------------------------------------------
\* Defaults of the script

DEFAULT_MIN_WIDTH == 10
DEFAULT_MIN_HEIGHT == 5
DEFAULT_EMAIL_ATTACH_SCREENS == TRUE

None == "None"
Unset == "unset"

----------------------------------------------------------------------------
\* Paths.  A path is written relative or absolute; resolve() gives the
\* absolute form, and two spellings of one file resolve to the same path.

NoPath == [form |-> "none", idx |-> 0, failure |-> FALSE]

Resolve(p) == [p EXCEPT !.form = "abs"]

\* out_dir / f"{stamp()}_{sanitize(url)}.png" for the k-th URL of the run
ScreenshotName(k) == [form |-> "rel", idx |-> k, failure |-> FALSE]

\* out_dir / f"{stamp()}_{sanitize(url)}_failure.png" for the k-th URL
FailureName(k) == [form |-> "rel", idx |-> k, failure |-> TRUE]

\* Path.exists() and open(): the file is on disk
Exists(p, disk) == Resolve(p) \in disk

----------------------------------------------------------------------------
\* validate_ui

Space == " "
ExpectedText == << "T" >>

RECURSIVE LStrip(_)
LStrip(s) == IF s # << >> /\ Head(s) = Space THEN LStrip(Tail(s)) ELSE s

RECURSIVE RStrip(_)
RStrip(s) ==
    IF s # << >> /\ s[Len(s)] = Space THEN RStrip(SubSeq(s, 1, Len(s) - 1)) ELSE s

\* str.strip()
Strip(s) == RStrip(LStrip(s))

\* float(): the strings that parse, and their value in tenths
FloatParses(s) == s \in {"0", "1", "0.5"}
FloatTenths(s) == CASE s = "0" -> 0 [] s = "1" -> 10 [] s = "0.5" -> 5 [] OTHER -> -1

\* the try block around the opacity test: ValueError/TypeError are passed over
OpacityIsZero(s) == FloatParses(s) /\ FloatTenths(s) = 0

Texts == { << "T" >>, << " ", "T", " " >>, << "T", "." >> }

Pages == [ nav : BOOLEAN, present : BOOLEAN, displayed : BOOLEAN,
           width : {DEFAULT_MIN_WIDTH, DEFAULT_MIN_WIDTH + 1},
           height : {DEFAULT_MIN_HEIGHT, DEFAULT_MIN_HEIGHT + 1},
           display : {"none", "block"},
           visibility : {"hidden", "visible"},
           opacity : {"0", "1", "abc"},
           text : Texts ]

NoPage == [ nav |-> FALSE, present |-> FALSE, displayed |-> FALSE,
            width |-> 0, height |-> 0, display |-> "", visibility |-> "",
            opacity |-> "", text |-> << >> ]

VOut(err, exc, ran) == [err |-> err, exc |-> exc, ran |-> ran]

NoRes == VOut("-", "-", << >>)

\* StyleAndText with the text comparison moved ahead of the style tests
StyleAndText_textFirst(p, ran) ==
    LET r1 == Append(ran, "text")
        r2 == Append(r1, "display")
        r3 == Append(r2, "visibility")
        r4 == Append(r3, "opacity")
    IN  IF Strip(p.text) # ExpectedText THEN VOut("text", "AssertionError", r1)
        ELSE IF p.display = "none" THEN VOut("display", "AssertionError", r2)
        ELSE IF p.visibility = "hidden" THEN VOut("visibility", "AssertionError", r3)
        ELSE IF OpacityIsZero(p.opacity) THEN VOut("opacity", "AssertionError", r4)
        ELSE VOut("OK", "-", r4)

\* the part of validate_ui after the size block: computed style, then text
StyleAndText(p, ran) ==
    LET r1 == Append(ran, "display")
        r2 == Append(r1, "visibility")
        r3 == Append(r2, "opacity")
        r4 == Append(r3, "text")
    IN  IF p.display = "none" THEN VOut("display", "AssertionError", r1)
        ELSE IF p.visibility = "hidden" THEN VOut("visibility", "AssertionError", r2)
        ELSE IF OpacityIsZero(p.opacity) THEN VOut("opacity", "AssertionError", r3)
        ELSE IF Strip(p.text) # ExpectedText THEN VOut("text", "AssertionError", r4)
        ELSE VOut("OK", "-", r4)

\* the size block of validate_ui
SizeCheck(p, cs, min_w, min_h, ran) ==
    LET r1 == Append(ran, "width")
        r2 == Append(r1, "height")
    IN  IF ~cs THEN StyleAndText(p, ran)
        ELSE IF p.width <= min_w THEN VOut("width", "AssertionError", r1)
        ELSE IF p.height <= min_h THEN VOut("height", "AssertionError", r2)
        ELSE StyleAndText(p, r2)

\* validate_ui(driver, url, ...): err is the check that raised ("OK" when the
\* call returns), exc the exception type, ran the checks evaluated, in order
validate_ui(p, cs, min_w, min_h) ==
    IF ~p.nav THEN VOut("navigate", "WebDriverException", << "navigate" >>)
    ELSE IF ~p.present THEN VOut("wait", "TimeoutException", << "navigate", "wait" >>)
    ELSE IF ~p.displayed
         THEN VOut("displayed", "AssertionError", << "navigate", "wait", "displayed" >>)
    ELSE SizeCheck(p, cs, min_w, min_h, << "navigate", "wait", "displayed" >>)

----------------------------------------------------------------------------
\* UrlResult

UrlResult(url, ok, message, shot, fshot) ==
    [url |-> url, ok |-> ok, message |-> message,
     screenshot_path |-> shot, failure_screenshot_path |-> fshot]

----------------------------------------------------------------------------
\* build_email_html_and_inline_map

EmptyMap == [x \in {} |-> 0]

MapPut(m, k, v) == [x \in (DOMAIN m) \cup {k} |-> IF x = k THEN v ELSE m[x]]

Cell(kind, cid, path) == [kind |-> kind, cid |-> cid, path |-> path]

\* shot = r.screenshot_path or r.failure_screenshot_path
ShotOf(r) ==
    IF r.screenshot_path # NoPath THEN r.screenshot_path ELSE r.failure_screenshot_path

\* the screenshot cell of row k; the content-id of a row is fresh (make_msgid)
ShotCell(r, k, inline) ==
    IF ShotOf(r) # NoPath /\ inline THEN Cell("cid", k, ShotOf(r))
    ELSE IF ShotOf(r) # NoPath THEN Cell("attached", 0, ShotOf(r))
    ELSE Cell("none", 0, NoPath)

RECURSIVE InlineMap(_, _, _)
InlineMap(rs, k, inline) ==
    IF k = 0 THEN EmptyMap
    ELSE LET m == InlineMap(rs, k - 1, inline)
         IN  IF ShotOf(rs[k]) # NoPath /\ inline
             THEN MapPut(m, Resolve(ShotOf(rs[k])), k)
             ELSE m

\* returns (body_html, inline_cid_by_path); the body is kept as its row cells
build_email_html_and_inline_map(rs, ok, inline) ==
    [ html |-> [k \in 1..Len(rs) |-> ShotCell(rs[k], k, inline)],
      map |-> InlineMap(rs, Len(rs), inline) ]

\* the rows whose cell makes line 297 call Path.resolve()
ResolvesInHtml(rs, inline) == inline /\ \E k \in 1..Len(rs) : ShotOf(rs[k]) # NoPath

----------------------------------------------------------------------------
\* attachment candidates of main (lines 555-580)

RECURSIVE Candidates(_, _)
Candidates(rs, k) ==
    IF k > Len(rs) THEN << >>
    ELSE (IF rs[k].screenshot_path # NoPath THEN << rs[k].screenshot_path >> ELSE << >>)
         \o (IF rs[k].failure_screenshot_path # NoPath
             THEN << rs[k].failure_screenshot_path >> ELSE << >>)
         \o Candidates(rs, k + 1)

\* the second loop: a candidate whose resolve() raised (its index is in
\* unresolved) or whose file is missing is skipped
RECURSIVE FilterAttachments(_, _, _, _)
FilterAttachments(cand, k, unresolved, disk) ==
    IF k > Len(cand) THEN << >>
    ELSE (IF k \notin unresolved /\ Exists(cand[k], disk)
          THEN << Resolve(cand[k]) >> ELSE << >>)
         \o FilterAttachments(cand, k + 1, unresolved, disk)

----------------------------------------------------------------------------
\* compose_email_message

NoMsg == [subject |-> "-", to |-> << >>, cc |-> << >>, html |-> << >>,
          inline |-> << >>, attached |-> << >>]

\* msg["To"] = ", ".join(email_to) if email_to else "": the header is kept as
\* the list of its comma-separated items
ToHeader(email_to) == IF email_to # << >> THEN email_to ELSE << "" >>

\* if email_cc: msg["Cc"] = ...; no items means no Cc header
CcHeader(email_cc) == email_cc

Part(path, cid) == [path |-> path, cid |-> cid]

\* the first loop: one inline part per member of inline_paths_set whose file
\* opens and whose resolved path is a key of the map (else KeyError, caught)
RECURSIVE InlineParts(_, _, _)
InlineParts(paths, m, disk) ==
    IF paths = {} THEN << >>
    ELSE LET p == CHOOSE x \in paths :
                    \A y \in paths : x.idx < y.idx
                                     \/ (x.idx = y.idx /\ (x.failure => y.failure))
         IN  (IF p \in disk /\ p \in DOMAIN m THEN << Part(p, m[p]) >> ELSE << >>)
             \o InlineParts(paths \ {p}, m, disk)

\* AlreadyInline comparing the path as given, without resolve()
AlreadyInline_unresolved(path, inline_paths_set) == path \in inline_paths_set

\* rp in inline_paths_set
AlreadyInline(path, inline_paths_set) == Resolve(path) \in inline_paths_set

\* the second loop: plain attachments, skipping those embedded inline
RECURSIVE AttachParts(_, _, _, _)
AttachParts(atts, k, inline_paths_set, disk) ==
    IF k > Len(atts) THEN << >>
    ELSE (IF ~AlreadyInline(atts[k], inline_paths_set) /\ Exists(atts[k], disk)
          THEN << Resolve(atts[k]) >> ELSE << >>)
         \o AttachParts(atts, k + 1, inline_paths_set, disk)

compose_email_message(email_to, email_cc, subject, html, atts, m, disk) ==
    LET inline_paths_set == { Resolve(p) : p \in DOMAIN m }
    IN  [ subject |-> subject,
          to |-> ToHeader(email_to),
          cc |-> CcHeader(email_cc),
          html |-> html,
          inline |-> InlineParts(inline_paths_set, m, disk),
          attached |-> AttachParts(atts, 1, inline_paths_set, disk) ]

----------------------------------------------------------------------------
\* send_via_smtp

\* getaddresses: the address of one header item ("" when it has none)
AddrOf(item) == CASE item = "N <b@x>" -> "b@x" [] OTHER -> item

RECURSIVE GetAddresses(_)
GetAddresses(items) ==
    IF items = << >> THEN << >>
    ELSE (IF AddrOf(Head(items)) # "" THEN << AddrOf(Head(items)) >> ELSE << >>)
         \o GetAddresses(Tail(items))

\* recipients, from the To and Cc headers
Recipients(message) == GetAddresses(message.to) \o GetAddresses(message.cc)

Ev(op) == [op |-> op, from |-> "", to |-> << >>]

SendMailEv(from, to) == [op |-> "sendmail", from |-> from, to |-> to]

\* server.login(smtp_user, smtp_password)
LoginEv(user) == [op |-> "login", from |-> user, to |-> << >>]

\* SmtpSession where the STARTTLS branch logs in before the upgrade
SmtpSession_loginBeforeTls(user, recipients, use_ssl, failAt) ==
    LET open == IF use_ssl THEN << Ev("connect_ssl") >> ELSE << Ev("connect") >>
        tls == IF use_ssl THEN << >>
               ELSE << Ev("ehlo"), LoginEv(user), Ev("starttls"), Ev("ehlo") >>
        auth == IF use_ssl THEN << LoginEv(user) >> ELSE << >>
    IN  IF failAt = "connect" THEN open
        ELSE IF failAt \in {"starttls", "login"}
             THEN open \o tls \o auth \o << Ev("close") >>
        ELSE open \o tls \o auth \o << SendMailEv(user, recipients), Ev("close") >>

\* the calls made on the connection up to and including the one that raises
\* (failAt), then the close of the with block when the connection was opened
SmtpSession(user, recipients, use_ssl, failAt) ==
    LET open == IF use_ssl THEN << Ev("connect_ssl") >> ELSE << Ev("connect") >>
        tls == IF use_ssl THEN << >> ELSE << Ev("ehlo"), Ev("starttls") >>
        tls2 == IF use_ssl THEN << >> ELSE << Ev("ehlo") >>
    IN  IF failAt = "connect" THEN open
        ELSE IF failAt = "starttls" /\ ~use_ssl THEN open \o tls \o << Ev("close") >>
        ELSE IF failAt = "login"
             THEN open \o tls \o tls2 \o << LoginEv(user), Ev("close") >>
        ELSE open \o tls \o tls2
             \o << LoginEv(user), SendMailEv(user, recipients), Ev("close") >>

\* send_via_smtp without the empty-recipients return
send_via_smtp_noGuard(message, user, use_ssl, failAt) ==
    [log |-> SmtpSession(user, Recipients(message), use_ssl, failAt),
     raises |-> failAt # "none" /\ ~(failAt = "starttls" /\ use_ssl)]

\* send_via_smtp: the transport calls it makes, and whether it raises
send_via_smtp(message, user, use_ssl, failAt) ==
    IF Recipients(message) = << >>
    THEN [log |-> << >>, raises |-> FALSE]
    ELSE [log |-> SmtpSession(user, Recipients(message), use_ssl, failAt),
          raises |-> failAt # "none" /\ ~(failAt = "starttls" /\ use_ssl)]

----------------------------------------------------------------------------
\* main(): credentials, browser session, per-URL loop

CredValues == {None, "", "u"}

Truthy(v) == v # None /\ v # ""

\* args.smtp_user or os.environ.get(args.smtp_user_env) or os.environ.get(DEFAULT)
ResolveCredential(cli, envNamed, envDefault) ==
    IF Truthy(cli) THEN cli ELSE IF Truthy(envNamed) THEN envNamed ELSE envDefault

\* CredentialsMissing without the password test
CredentialsMissing_userOnly(u, p) == ~Truthy(u)

\* the two "if not smtp_user / if not smtp_pass: sys.exit(2)" tests
CredentialsMissing(u, p) == ~Truthy(u) \/ ~Truthy(p)

UrlLists == { [k \in 1..n |-> k] : n \in 1..MaxUrls }

Init ==
    /\ pc = "start"
    /\ urls \in UrlLists
    /\ i = 0
    /\ check_size \in BOOLEAN
    /\ email_inline_images \in BOOLEAN
    /\ smtp_user = Unset
    /\ smtp_pass = Unset
    /\ driver = "none"
    /\ builds = 0
    /\ quits = 0
    /\ visited = << >>
    /\ page = NoPage
    /\ vres = NoRes
    /\ validated = << >>
    /\ results = << >>
    /\ overall_ok = TRUE
    /\ files = {}
    /\ body_html = << >>
    /\ inline_cid_by_path = EmptyMap
    /\ attachments = << >>
    /\ msg = NoMsg
    /\ smtp = << >>
    /\ raised = {}
    /\ phases = << >>
    /\ pending = "none"
    /\ exitCode = -1

\* lines 491-500: resolve the credentials, exit 2 when one is missing
ResolveCredentials ==
    /\ pc = "start"
    /\ \E cu \in CredValues, eu \in CredValues, du \in CredValues,
          cp \in CredValues, ep \in CredValues, dp \in CredValues :
         LET u == ResolveCredential(cu, eu, du)
             p == ResolveCredential(cp, ep, dp)
         IN  /\ smtp_user' = u
             /\ smtp_pass' = p
             /\ IF CredentialsMissing(u, p)
                THEN pc' = "exited" /\ exitCode' = 2
                ELSE pc' = "build" /\ exitCode' = exitCode
    /\ UNCHANGED << urls, phases, i, check_size, email_inline_images, driver, builds, quits,
                    visited, page, vres, validated, results, overall_ok, files,
                    body_html, inline_cid_by_path, attachments, msg, smtp,
                    raised, pending >>

\* line 505: build_driver; when it raises, the exception leaves main before
\* the try block is entered
BuildDriver ==
    /\ pc = "build"
    /\ builds' = builds + 1
    /\ \E started \in BOOLEAN :
         IF started
         THEN /\ driver' = "running" /\ pc' = "loop" /\ exitCode' = exitCode
              /\ phases' = << "Init" >>
         ELSE /\ driver' = driver /\ pc' = "exited" /\ exitCode' = 1
              /\ phases' = phases
    /\ UNCHANGED << urls, i, check_size, email_inline_images, smtp_user, smtp_pass,
                    quits, visited, page, vres, validated, results, overall_ok,
                    files, body_html, inline_cid_by_path, attachments, msg,
                    smtp, raised, pending >>

\* lines 515-524: the validate_ui call for the next URL
Validate ==
    /\ pc = "loop"
    /\ i < Len(urls)
    /\ \E p \in Pages :
         /\ page' = p
         /\ vres' = validate_ui(p, check_size, DEFAULT_MIN_WIDTH, DEFAULT_MIN_HEIGHT)
    /\ visited' = Append(visited, urls[i + 1])
    /\ pc' = "validated"
    /\ phases' = Append(phases, "Validating")
    /\ UNCHANGED << urls, i, check_size, email_inline_images, smtp_user, smtp_pass,
                    driver, builds, quits, validated, results, overall_ok, files,
                    body_html, inline_cid_by_path, attachments, msg, smtp,
                    raised, pending, exitCode >>

\* RecordFailure where an unsaved failure screenshot loses the record
RecordFailure_dropOnSaveFail(url, k, exc, disk, saved) ==
    [ results |-> IF saved
                  THEN Append(results,
                         UrlResult(url, FALSE, exc, NoPath, FailureName(k)))
                  ELSE results,
      files |-> IF saved THEN disk \cup {Resolve(FailureName(k))} ELSE disk ]

\* lines 530-542: the except branch of the per-URL try.  failure_path is
\* assigned before save_screenshot is called, so it stays set when the save
\* raises or writes nothing.
RecordFailure(url, k, exc, disk, saved) ==
    [ results |-> Append(results,
                    UrlResult(url, FALSE, exc, NoPath, FailureName(k))),
      files |-> IF saved THEN disk \cup {Resolve(FailureName(k))} ELSE disk ]

\* lines 525-529, and 530-542 when fullpage_screenshot raises
Capture ==
    /\ pc = "validated"
    /\ vres.err = "OK"
    /\ LET k == i + 1
           url == urls[k]
       IN \E shot \in {"saved", "nofile", "raise"}, fsaved \in BOOLEAN :
            IF shot = "raise"
            THEN LET f == RecordFailure(url, k, "WebDriverException", files, fsaved)
                 IN  /\ overall_ok' = FALSE
                     /\ results' = f.results
                     /\ files' = f.files
                     /\ phases' = phases \o << "Capturing", "FailureCapturing" >>
            ELSE /\ overall_ok' = overall_ok
                 /\ results' = Append(results,
                                 UrlResult(url, TRUE, "OK", ScreenshotName(k), NoPath))
                 /\ files' = IF shot = "saved"
                             THEN files \cup {Resolve(ScreenshotName(k))}
                             ELSE files
                 /\ phases' = Append(phases, "Capturing")
    /\ validated' = Append(validated, TRUE)
    /\ page' = NoPage
    /\ vres' = NoRes
    /\ i' = i + 1
    /\ pc' = "loop"
    /\ UNCHANGED << urls, check_size, email_inline_images, smtp_user, smtp_pass,
                    driver, builds, quits, visited, body_html,
                    inline_cid_by_path, attachments, msg, smtp, raised,
                    pending, exitCode >>

\* lines 530-542 when validate_ui raised
FailureCapture ==
    /\ pc = "validated"
    /\ vres.err # "OK"
    /\ LET k == i + 1
       IN \E fsaved \in BOOLEAN :
            LET f == RecordFailure(urls[k], k, vres.exc, files, fsaved)
            IN  /\ results' = f.results
                /\ files' = f.files
    /\ overall_ok' = FALSE
    /\ validated' = Append(validated, FALSE)
    /\ page' = NoPage
    /\ vres' = NoRes
    /\ i' = i + 1
    /\ pc' = "loop"
    /\ phases' = Append(phases, "FailureCapturing")
    /\ UNCHANGED << urls, check_size, email_inline_images, smtp_user, smtp_pass,
                    driver, builds, quits, visited, body_html,
                    inline_cid_by_path, attachments, msg, smtp, raised,
                    pending, exitCode >>


----------------------------------------------------------------------------
\* main(): report, attachments, compose and send, exit

\* the for loop of main has run out of URLs
LoopDone == pc = "loop" /\ i = Len(urls)

\* lines 545-553.  Path.resolve() at line 297 is called outside every handler:
\* when it raises, the exception leaves the try block of main.
BuildHtml ==
    /\ LoopDone
    /\ \E fault \in BOOLEAN :
         IF fault /\ ResolvesInHtml(results, email_inline_images)
         THEN /\ raised' = raised \cup {"html"}
              /\ pending' = "exception"
              /\ pc' = "finally"
              /\ UNCHANGED << body_html, inline_cid_by_path >>
         ELSE LET b == build_email_html_and_inline_map(
                           results, overall_ok, email_inline_images)
              IN  /\ body_html' = b.html
                  /\ inline_cid_by_path' = b.map
                  /\ pc' = "attach"
                  /\ UNCHANGED << raised, pending >>
    /\ phases' = Append(phases, "Reporting")
    /\ UNCHANGED << urls, i, check_size, email_inline_images, smtp_user, smtp_pass,
                    driver, builds, quits, visited, page, vres, validated,
                    results, overall_ok, files, attachments, msg, smtp,
                    exitCode >>

\* lines 555-580.  resolve() is guarded here (the candidate is skipped);
\* exists() and is_file() are not, and an OSError from them leaves the try
\* block of main.
BuildAttachments ==
    /\ pc = "attach"
    /\ LET cand == IF DEFAULT_EMAIL_ATTACH_SCREENS
                   THEN Candidates(results, 1) ELSE << >>
       IN \E fault \in BOOLEAN,
             unresolved \in {{}} \cup {{c} : c \in 1..Len(cand)} :
            IF fault /\ cand # << >> /\ unresolved = {}
            THEN /\ raised' = raised \cup {"attach"}
                 /\ pending' = "exception"
                 /\ pc' = "finally"
                 /\ UNCHANGED attachments
            ELSE /\ attachments' = FilterAttachments(cand, 1, unresolved, files)
                 /\ pc' = "compose"
                 /\ UNCHANGED << raised, pending >>
    /\ UNCHANGED << urls, phases, i, check_size, email_inline_images, smtp_user, smtp_pass,
                    driver, builds, quits, visited, page, vres, validated,
                    results, overall_ok, files, body_html, inline_cid_by_path,
                    msg, smtp, exitCode >>

DEFAULT_EMAIL_TO == << "T", "O", "_", "E", "M", "A", "I", "L" >>
DEFAULT_EMAIL_CC == << >>

ToLists == { DEFAULT_EMAIL_TO, << "" >>, << "N <b@x>" >> }
CcLists == { DEFAULT_EMAIL_CC, << "c@x" >> }

\* status_word of the subject
StatusWord(ok) == IF ok THEN "PASS" ELSE "FAIL"

\* lines 583-593 and 602-603: compose_email_message inside the inner try; an
\* exception (resolve() at line 382) is printed and the send is skipped
Compose ==
    /\ pc = "compose"
    /\ LET m == IF email_inline_images THEN inline_cid_by_path ELSE EmptyMap
       IN \E fault \in BOOLEAN, to \in ToLists, cc \in CcLists :
            IF fault /\ DOMAIN m # {}
            THEN /\ raised' = raised \cup {"compose"}
                 /\ pc' = "exitcheck"
                 /\ UNCHANGED msg
            ELSE /\ msg' = compose_email_message(to, cc, StatusWord(overall_ok),
                                                 body_html, attachments, m, files)
                 /\ pc' = "send"
                 /\ UNCHANGED raised
    /\ UNCHANGED << urls, phases, i, check_size, email_inline_images, smtp_user, smtp_pass,
                    driver, builds, quits, visited, page, vres, validated,
                    results, overall_ok, files, body_html, inline_cid_by_path,
                    attachments, smtp, pending, exitCode >>

FailPoints == {"none", "connect", "starttls", "login", "sendmail"}

\* lines 594-603: send_via_smtp inside the inner try
Send ==
    /\ pc = "send"
    /\ \E use_ssl \in BOOLEAN, failAt \in FailPoints :
         LET s == send_via_smtp(msg, smtp_user, use_ssl, failAt)
         IN  /\ smtp' = smtp \o s.log
             /\ raised' = IF s.raises THEN raised \cup {"send"} ELSE raised
    /\ pc' = "exitcheck"
    /\ phases' = Append(phases, "Sending")
    /\ UNCHANGED << urls, i, check_size, email_inline_images, smtp_user, smtp_pass,
                    driver, builds, quits, visited, page, vres, validated,
                    results, overall_ok, files, body_html, inline_cid_by_path,
                    attachments, msg, pending, exitCode >>

\* lines 605-607: sys.exit(1) raises SystemExit through the finally block
ExitCheck ==
    /\ pc = "exitcheck"
    /\ pending' = IF ~overall_ok THEN "exit1" ELSE "none"
    /\ pc' = "finally"
    /\ UNCHANGED << urls, phases, i, check_size, email_inline_images, smtp_user, smtp_pass,
                    driver, builds, quits, visited, page, vres, validated,
                    results, overall_ok, files, body_html, inline_cid_by_path,
                    attachments, msg, smtp, raised, exitCode >>

\* the status the interpreter ends with: SystemExit(1) and an unhandled
\* exception both give 1
ExitStatus(p) == IF p = "none" THEN 0 ELSE 1

\* Finally where sys.exit(1) leaves without the teardown
Finally_skipQuitOnExit ==
    /\ pc = "finally"
    /\ driver' = IF pending = "exit1" THEN driver ELSE "quit"
    /\ quits' = IF pending = "exit1" THEN quits ELSE quits + 1
    /\ exitCode' = ExitStatus(pending)
    /\ pc' = "exited"
    /\ phases' = Append(phases, "Done")
    /\ UNCHANGED << urls, i, check_size, email_inline_images, smtp_user, smtp_pass,
                    builds, visited, page, vres, validated, results, overall_ok,
                    files, body_html, inline_cid_by_path, attachments, msg,
                    smtp, raised, pending >>

\* lines 608-609: finally: driver.quit(), then the process ends
Finally ==
    /\ pc = "finally"
    /\ driver' = "quit"
    /\ quits' = quits + 1
    /\ exitCode' = ExitStatus(pending)
    /\ pc' = "exited"
    /\ phases' = Append(phases, "Done")
    /\ UNCHANGED << urls, i, check_size, email_inline_images, smtp_user, smtp_pass,
                    builds, visited, page, vres, validated, results, overall_ok,
                    files, body_html, inline_cid_by_path, attachments, msg,
                    smtp, raised, pending >>

Next ==
    \/ ResolveCredentials
    \/ BuildDriver
    \/ Validate
    \/ Capture
    \/ FailureCapture
    \/ BuildHtml
    \/ BuildAttachments
    \/ Compose
    \/ Send
    \/ ExitCheck
    \/ Finally

Spec == Init /\ [][Next]_vars

----------------------------------------------------------------------------
\* compose_email_message on its own: any attachment list, any inline map,
\* any disk content

RawPaths == [form : {"rel", "abs"}, idx : 1..MaxPaths, failure : {FALSE}]

AttachLists == UNION { [1..n -> RawPaths] : n \in 0..MaxAttach }

\* content-ids are distinct per key
CidOf(p) == IF p.form = "rel" THEN p.idx ELSE p.idx + MaxPaths

InlineMaps == { [p \in K |-> CidOf(p)] : K \in SUBSET RawPaths }

InitCompose ==
    /\ pc = "call_compose"
    /\ urls = << 1 >>
    /\ i = 0
    /\ check_size = FALSE
    /\ email_inline_images = TRUE
    /\ smtp_user = "u"
    /\ smtp_pass = "u"
    /\ driver = "none"
    /\ builds = 0
    /\ quits = 0
    /\ visited = << >>
    /\ page = NoPage
    /\ vres = NoRes
    /\ validated = << >>
    /\ results = << >>
    /\ overall_ok = TRUE
    /\ files \in SUBSET { Resolve(p) : p \in RawPaths }
    /\ body_html = << >>
    /\ inline_cid_by_path \in InlineMaps
    /\ attachments \in AttachLists
    /\ msg = NoMsg
    /\ smtp = << >>
    /\ raised = {}
    /\ phases = << >>
    /\ pending = "none"
    /\ exitCode = -1

\* one call of compose_email_message with the arguments held in the state
ComposeCall ==
    /\ pc = "call_compose"
    /\ \E to \in ToLists, cc \in CcLists :
         msg' = compose_email_message(to, cc, "PASS", body_html, attachments,
                                      inline_cid_by_path, files)
    /\ pc' = "returned"
    /\ UNCHANGED << urls, phases, i, check_size, email_inline_images, smtp_user, smtp_pass,
                    driver, builds, quits, visited, page, vres, validated,
                    results, overall_ok, files, body_html, inline_cid_by_path,
                    attachments, smtp, raised, pending, exitCode >>

NextCompose == ComposeCall

SpecCompose == InitCompose /\ [][NextCompose]_vars

----------------------------------------------------------------------------
\* Properties

\* the per-URL loop of main is over and the code after it has been entered
AfterLoop ==
    \/ pc \in {"attach", "compose", "send", "exitcheck", "finally"}
    \/ pc = "exited" /\ driver = "quit"

AllOk == \A k \in 1..Len(results) : results[k].ok

\* C1: when a run that processed its URLs ends, overall_ok is true iff every
\* UrlResult.ok is true, and the exit code is 0 iff overall_ok.
C1_ExitCodeIffAllOk ==
    (pc = "exited" /\ AfterLoop) =>
        /\ overall_ok <=> AllOk
        /\ exitCode = 0 <=> overall_ok

\* C2: the results are always the records of the URLs processed so far, in
\* input order, one per loop iteration; once the loop is over there is one
\* record per input URL and every URL has been visited, whatever failed.
C2_OneResultPerUrl ==
    /\ Len(results) = i
    /\ \A k \in 1..Len(results) : results[k].url = urls[k]
    /\ AfterLoop => (Len(results) = Len(urls) /\ visited = urls)

\* C2 witness: the first URL failed and its failure screenshot was not
\* written; the second URL was still processed and passed.
C2_Witness ==
    /\ pc = "attach"
    /\ Len(urls) >= 2
    /\ ~results[1].ok
    /\ Resolve(FailureName(1)) \notin files
    /\ results[2].ok

\* C3: driver.quit is never called twice, never without a session, and a run
\* that started the session has called it exactly once when the process ends.
C3_QuitExactlyOnce ==
    /\ quits <= 1
    /\ driver = "none" => quits = 0
    /\ (pc = "exited" /\ driver # "none") => (quits = 1 /\ driver = "quit")

\* C3 witness: the run ended by an exception raised while the report or the
\* attachment list was built, and the session was released.
C3_Witness ==
    /\ pc = "exited"
    /\ raised \cap {"html", "attach"} # {}
    /\ quits = 1

\* C4: when the username or the password resolved to nothing, the process
\* has exited with code 2 and no browser was built, no URL visited, no file
\* written, nothing composed and nothing sent.
C4_MissingCredentialsExit2 ==
    (~Truthy(smtp_user) \/ ~Truthy(smtp_pass)) =>
        /\ pc = "exited"
        /\ exitCode = 2
        /\ builds = 0
        /\ driver = "none"
        /\ visited = << >>
        /\ files = {}
        /\ msg = NoMsg
        /\ smtp = << >>

\* C4 witness: the username resolved, the password did not.
C4_Witness ==
    /\ pc = "exited"
    /\ smtp_user = "u"
    /\ ~Truthy(smtp_pass)
    /\ exitCode = 2

\* C5: when a step of the reporting code raised, the exit code is the one
\* validation alone gives: 0 when every URL passed, 1 otherwise.
C5_ReportingFailureSwallowed ==
    (pc = "exited" /\ raised # {}) =>
        exitCode = (IF overall_ok THEN 0 ELSE 1)

\* C6: a URL whose validate_ui call returned normally is recorded with
\* ok = true, whatever the screenshot capture did.
C6_CaptureFailureKeepsStatus ==
    \A k \in 1..Len(results) : validated[k] => results[k].ok

\* the checks of validate_ui in the order the claim gives them
C7_Order == << "navigate", "wait", "displayed", "width", "height",
               "display", "visibility", "opacity", "text" >>

C7_Enabled(c) == c \in {"width", "height"} => check_size

C7_Fails(c, p) ==
    CASE c = "navigate" -> ~p.nav
      [] c = "wait" -> ~p.present
      [] c = "displayed" -> ~p.displayed
      [] c = "width" -> ~(p.width > DEFAULT_MIN_WIDTH)
      [] c = "height" -> ~(p.height > DEFAULT_MIN_HEIGHT)
      [] c = "display" -> p.display = "none"
      [] c = "visibility" -> p.visibility = "hidden"
      [] c = "opacity" -> p.opacity = "0"
      [] c = "text" -> p.text \notin { << "T" >>, << " ", "T", " " >> }

C7_Failing == { n \in 1..Len(C7_Order) :
                  C7_Enabled(C7_Order[n]) /\ C7_Fails(C7_Order[n], page) }

\* the enabled checks among the first n of the order
C7_Upto(n) == SelectSeq(SubSeq(C7_Order, 1, n), C7_Enabled)

\* C7: validate_ui passes iff no enabled check fails; otherwise it reports
\* the earliest failing check of the fixed order, having evaluated exactly
\* the enabled checks up to that one and none after it.
C7_FirstFailingCheckWins ==
    pc = "validated" =>
        IF C7_Failing = {}
        THEN vres.err = "OK" /\ vres.ran = C7_Upto(Len(C7_Order))
        ELSE LET m == CHOOSE n \in C7_Failing : \A o \in C7_Failing : n <= o
             IN  vres.err = C7_Order[m] /\ vres.ran = C7_Upto(m)

\* C7 witness: visibility, style and text all fail; the visibility check is
\* the one reported.
C7_Witness ==
    /\ pc = "validated"
    /\ page.nav /\ page.present /\ ~page.displayed
    /\ page.display = "none"
    /\ page.text = << "T", "." >>
    /\ vres.err = "displayed"

\* the inline map handed to compose_email_message
C8_PassedMap == IF email_inline_images THEN inline_cid_by_path ELSE EmptyMap

C8_Count(parts, p) == Cardinality({ j \in 1..Len(parts) : parts[j] = p })

\* C8: in a composed message no plain attachment is a file of the inline
\* map, and each file of the inline map occurs at most once, as an inline part.
C8_InlineNeverAttached ==
    msg # NoMsg =>
        LET keys == { Resolve(p) : p \in DOMAIN C8_PassedMap }
            inl == [j \in 1..Len(msg.inline) |-> msg.inline[j].path]
        IN  /\ \A j \in 1..Len(msg.attached) : msg.attached[j] \notin keys
            /\ \A p \in keys : C8_Count(inl, p) + C8_Count(msg.attached, p) <= 1
            /\ \A j \in 1..Len(inl) : inl[j] \in keys

\* C8 witness: an attachment written in relative form names a file that is
\* on disk and in the inline map; the message carries it inline.
C8_Witness ==
    /\ pc = "returned"
    /\ \E j \in 1..Len(attachments) :
         /\ attachments[j].form = "rel"
         /\ Resolve(attachments[j]) \in files
         /\ Resolve(attachments[j]) \in DOMAIN inline_cid_by_path
         /\ \E n \in 1..Len(msg.inline) : msg.inline[n].path = Resolve(attachments[j])

C9_NoAddress(items) == \A j \in 1..Len(items) : items[j] = ""

\* C9: every transmission names at least one recipient, and when neither
\* the To nor the Cc header of the message holds an address, send_via_smtp
\* made no transport call and did not raise.
C9_NoSendWithoutRecipients ==
    /\ \A j \in 1..Len(smtp) : smtp[j].op = "sendmail" => smtp[j].to # << >>
    /\ (pc \in {"exitcheck", "finally", "exited"} /\ msg # NoMsg
          /\ C9_NoAddress(msg.to) /\ C9_NoAddress(msg.cc))
        => (smtp = << >> /\ "send" \notin raised)

\* C9 witness: send_via_smtp was called with a message whose To header is
\* empty and which has no Cc header.
C9_Witness ==
    /\ pc = "exitcheck"
    /\ msg # NoMsg
    /\ msg.to = << "" >>
    /\ msg.cc = << >>
    /\ smtp = << >>

\* C10: every screenshot the composed report references by content-id or
\* attaches is a file on disk.
C10_ReferencedScreenshotsExist ==
    msg # NoMsg =>
        /\ \A k \in 1..Len(msg.html) :
             msg.html[k].kind = "cid" => Exists(msg.html[k].path, files)
        /\ \A j \in 1..Len(msg.attached) : msg.attached[j] \in files

\* positions of the transport calls named op
C11_At(op) == { j \in 1..Len(smtp) : smtp[j].op = op }

\* C11: the transport calls of a send_via_smtp call that had recipients start
\* with the one connect; a login comes after the encryption (implicit TLS at
\* connect or starttls); a sendmail comes after a login, carries the logged-in
\* username as envelope sender and the parsed recipients; there is one
\* sendmail when the call returned normally and never more than one; an
\* opened connection is closed once, as the last call, also when login or
\* sendmail raised.  Only a connect that itself raised leaves nothing to close.
C11_SmtpSessionOrder ==
    (pc \in {"exitcheck", "finally", "exited"} /\ smtp # << >>) =>
        /\ C11_At("connect") \cup C11_At("connect_ssl") = {1}
        /\ \A j \in C11_At("login") :
             \E k \in 1..(j - 1) : smtp[k].op \in {"connect_ssl", "starttls"}
        /\ \A j \in C11_At("sendmail") :
             /\ \E k \in 1..(j - 1) :
                  smtp[k].op = "login" /\ smtp[k].from = smtp[j].from
             /\ smtp[j].from = smtp_user
             /\ smtp[j].to # << >>
             /\ smtp[j].to = Recipients(msg)
        /\ Cardinality(C11_At("sendmail")) <= 1
        /\ "send" \notin raised => Cardinality(C11_At("sendmail")) = 1
        /\ Len(smtp) > 1 => C11_At("close") = {Len(smtp)}
        /\ Len(smtp) = 1 => "send" \in raised

\* C11 witness: a STARTTLS session in which login raised: the connection was
\* upgraded, the login attempted, nothing sent, and the connection closed.
C11_Witness ==
    /\ pc = "exitcheck"
    /\ "send" \in raised
    /\ Len(smtp) = 6
    /\ smtp[3].op = "starttls"
    /\ smtp[5].op = "login"
    /\ smtp[6].op = "close"

\* the stages the k-th URL goes through: Validating, then Capturing after a
\* validation success or FailureCapturing after a validation failure
C12_UrlStages(k) ==
    << "Validating", IF validated[k] THEN "Capturing" ELSE "FailureCapturing" >>

RECURSIVE C12_LoopStages(_)
C12_LoopStages(n) ==
    IF n = 0 THEN << >> ELSE C12_LoopStages(n - 1) \o C12_UrlStages(n)

C12_Sends == { j \in 1..Len(phases) : phases[j] = "Sending" }

\* C12: a run that started the session and ended went through Init, then for
\* each URL in input order Validating and exactly one of Capturing or
\* FailureCapturing, then Reporting, then Sending (left out when the report
\* could not be composed), then Done; a message is composed only when every
\* URL has its result, and there is at most one send.
C12_StageOrder ==
    /\ (pc = "exited" /\ driver # "none") =>
          /\ visited = urls
          /\ \/ phases = << "Init" >> \o C12_LoopStages(Len(urls))
                           \o << "Reporting", "Sending", "Done" >>
             \/ phases = << "Init" >> \o C12_LoopStages(Len(urls))
                           \o << "Reporting", "Done" >>
    /\ msg # NoMsg => Len(results) = Len(urls)
    /\ Cardinality(C12_Sends) <= 1
    /\ Cardinality(C11_At("sendmail")) <= 1

====
